---- MODULE Spec2Model ----
(***************************************************************************)
(* Model of analytics/csv_analyzer.py: the type inferrer (infer_type), the *)
(* single pass of analyze_csv over the data rows, the report formatter     *)
(* (print_report) and the entry point (main); and of the storage wrapper   *)
(* n8n/supaBaseCsvParser.py: the three fetch functions and                 *)
(* get_supabase_client.                                                    *)
(*                                                                         *)
(* A Python str is modelled as a sequence of one-character strings, so     *)
(* that strip, split, startswith, slicing and the substring test are       *)
(* computed as Python computes them.                                       *)
(***************************************************************************)
EXTENDS Integers, Sequences, FiniteSets, TLC

VARIABLES
    pc,                       \* position of main: "main", "rows", "report", "exit"
    exit_code,                \* -1 while running, then the process exit status
    stdout,                   \* sections written to standard output, in order
    all_headers,              \* header names of the file, in physical order
    subject_term_indices,     \* indices (0-based) of the billSubjectTerm columns
    cosponsor_indices,        \* indices (0-based) of the Cosponsor columns
    relevant_headers,         \* de-duplicated, ignore-filtered header names
    stats,                    \* column name -> [total, filled, empty, types, sample_values]
    subject_term_counts,      \* term -> number of occurrences (a defaultdict)
    bills_with_subject_terms,
    total_cosponsors,
    bills_with_cosponsors,
    total_rows,
    rows,                     \* the data rows the csv reader has yielded so far
    always_filled,            \* the four buckets of print_report (column names)
    mostly_filled,
    sometimes_filled,
    rarely_filled,
    schema,                   \* the fields of the CREATE TABLE block, in order
    value,                    \* argument of the last call of infer_type under SpecInfer
    dtype,                    \* its result ("" before the first call)
    fetch_pc,                 \* storage wrapper: "import", then "ready"
    environ,                  \* os.environ: variable name -> value, <<>> when unset
    fetch_call,               \* the last call of a fetch function and its arguments
    fetch_events,             \* the calls it made to the supabase library, in order
    fetch_result              \* how it ended ("" before the first call)

vars == <<pc, exit_code, stdout, all_headers, subject_term_indices,
          cosponsor_indices, relevant_headers, stats, subject_term_counts,
          bills_with_subject_terms, total_cosponsors, bills_with_cosponsors,
          total_rows, rows, always_filled, mostly_filled, sometimes_filled,
          rarely_filled, schema, value, dtype, fetch_pc, environ,
          fetch_call, fetch_events, fetch_result>>

analysis_vars == <<pc, exit_code, stdout, all_headers, subject_term_indices,
          cosponsor_indices, relevant_headers, stats, subject_term_counts,
          bills_with_subject_terms, total_cosponsors, bills_with_cosponsors,
          total_rows, rows, always_filled, mostly_filled, sometimes_filled,
          rarely_filled, schema>>

fetch_vars == <<fetch_pc, environ, fetch_call, fetch_events, fetch_result>>

----------------------------------------------------------------------------
(* Bounds of the model.                                                    *)

\* Longest file (data rows) analysed under Spec.
MaxRows == 4

\* Longest file (data rows) analysed under SpecReport.
MaxReportRows == 10

\* Longest file (data rows) analysed under SpecTerms.
MaxTermRows == 3

\* Number of tokens an argument of infer_type is built from under SpecInfer.
MaxTokens == 3

----------------------------------------------------------------------------
(* Python str operations, on sequences of characters.                      *)

Digits == {"0", "1", "2", "3", "4", "5", "6", "7", "8", "9"}

\* The characters str.strip() removes, among those the model's inputs use.
Whitespace == {" ", "\t"}

RECURSIVE StripLeft(_)
StripLeft(s) ==
    IF s # <<>> /\ Head(s) \in Whitespace THEN StripLeft(Tail(s)) ELSE s

RECURSIVE StripRight(_)
StripRight(s) ==
    IF s # <<>> /\ s[Len(s)] \in Whitespace
    THEN StripRight(SubSeq(s, 1, Len(s) - 1))
    ELSE s

\* str.strip()
Strip(s) == StripRight(StripLeft(s))

\* str.startswith(prefix)
StartsWith(s, prefix) ==
    /\ Len(prefix) <= Len(s)
    /\ SubSeq(s, 1, Len(prefix)) = prefix

\* `pattern in s` for two str
Contains(s, pattern) ==
    \E i \in 0..(Len(s) - Len(pattern)) :
        SubSeq(s, i + 1, i + Len(pattern)) = pattern

\* str.split(sep) for a one-character sep: the segments between the separators
RECURSIVE Split(_, _)
Split(s, sep) ==
    IF \A i \in 1..Len(s) : s[i] # sep
    THEN <<s>>
    ELSE LET i == CHOOSE k \in 1..Len(s) :
                      s[k] = sep /\ \A j \in 1..(k - 1) : s[j] # sep
         IN  <<SubSeq(s, 1, i - 1)>> \o Split(SubSeq(s, i + 1, Len(s)), sep)

\* str.isdigit(): non-empty and every character a digit
IsDigit(p) == p # <<>> /\ \A i \in 1..Len(p) : p[i] \in Digits

\* A run of digits as int() and float() read it: digits, with single
\* underscores allowed between two digits.
DigitGroup(b) ==
    /\ b # <<>>
    /\ \A i \in 1..Len(b) : b[i] \in Digits \cup {"_"}
    /\ b[1] \in Digits
    /\ b[Len(b)] \in Digits
    /\ \A i \in 1..(Len(b) - 1) : ~(b[i] = "_" /\ b[i + 1] = "_")

Unsigned(s) == IF s # <<>> /\ Head(s) \in {"+", "-"} THEN Tail(s) ELSE s

\* int(s) does not raise ValueError (s already stripped)
ParsesInt(s) == DigitGroup(Unsigned(s))

LowerOf(c) ==
    CASE c = "A" -> "a" [] c = "B" -> "b" [] c = "C" -> "c" [] c = "D" -> "d"
      [] c = "E" -> "e" [] c = "F" -> "f" [] c = "G" -> "g" [] c = "H" -> "h"
      [] c = "I" -> "i" [] c = "J" -> "j" [] c = "K" -> "k" [] c = "L" -> "l"
      [] c = "M" -> "m" [] c = "N" -> "n" [] c = "O" -> "o" [] c = "P" -> "p"
      [] c = "Q" -> "q" [] c = "R" -> "r" [] c = "S" -> "s" [] c = "T" -> "t"
      [] c = "U" -> "u" [] c = "V" -> "v" [] c = "W" -> "w" [] c = "X" -> "x"
      [] c = "Y" -> "y" [] c = "Z" -> "z" [] OTHER -> c

\* str.lower()
Lower(s) == [i \in 1..Len(s) |-> LowerOf(s[i])]

\* The mantissa of a decimal literal: digits, digits. , .digits or digits.digits
Mantissa(m) ==
    LET parts == Split(m, ".")
    IN  \/ Len(parts) = 1 /\ DigitGroup(m)
        \/ /\ Len(parts) = 2
           /\ parts[1] = <<>> \/ DigitGroup(parts[1])
           /\ parts[2] = <<>> \/ DigitGroup(parts[2])
           /\ parts[1] # <<>> \/ parts[2] # <<>>

\* float(s) does not raise ValueError (s already stripped)
ParsesFloat(s) ==
    LET u == Lower(Unsigned(s))
        parts == Split(u, "e")
    IN  \/ u \in {<<"i", "n", "f">>, <<"n", "a", "n">>,
                  <<"i", "n", "f", "i", "n", "i", "t", "y">>}
        \/ Len(parts) = 1 /\ Mantissa(u)
        \/ /\ Len(parts) = 2
           /\ Mantissa(parts[1])
           /\ DigitGroup(Unsigned(parts[2]))

Http == <<"h", "t", "t", "p", ":", "/", "/">>
Https == <<"h", "t", "t", "p", "s", ":", "/", "/">>

\* Length a date value must have (line 47).
DateLen == 10

\* The date test of infer_type on the stripped value (lines 47-50).
IsDate(v) ==
    /\ \E i \in 1..Len(v) : v[i] = "/"
    /\ Len(v) = DateLen
    /\ LET parts == Split(v, "/")
       IN  Len(parts) = 3 /\ \A i \in 1..Len(parts) : IsDigit(parts[i])

\* infer_type with the float test ahead of the integer test.
infer_type_float_first(val) ==
    IF val = <<>> \/ Strip(val) = <<>> THEN "empty"
    ELSE LET v == Strip(val)
         IN  IF StartsWith(v, Http) \/ StartsWith(v, Https) THEN "url"
             ELSE IF IsDate(v) THEN "date"
             ELSE IF ParsesFloat(v) THEN "float"
             ELSE IF ParsesInt(v) THEN "integer"
             ELSE "string"

\* infer_type(value), lines 35-67
infer_type(val) ==
    IF val = <<>> \/ Strip(val) = <<>> THEN "empty"
    ELSE LET v == Strip(val)
         IN  IF StartsWith(v, Http) \/ StartsWith(v, Https) THEN "url"
             ELSE IF IsDate(v) THEN "date"
             ELSE IF ParsesInt(v) THEN "integer"
             ELSE IF ParsesFloat(v) THEN "float"
             ELSE "string"

----------------------------------------------------------------------------
(* Program constants of csv_analyzer.py.                                   *)

BillSubjectTerm ==
    <<"b", "i", "l", "l", "S", "u", "b", "j", "e", "c", "t", "T", "e", "r", "m">>

Cosponsor == <<"C", "o", "s", "p", "o", "n", "s", "o", "r">>

\* IGNORE_PATTERNS, line 18
IGNORE_PATTERNS == {Cosponsor}

\* Number of leading metadata lines skipped before the header (line 75).
MetadataLines == 3

\* At most this many sample values are kept per column (line 157).
MaxSamples == 3

\* Sample values longer than this are cut and marked with "..." (line 159).
SampleLen == 80

\* should_ignore_column(col_name), lines 30-32
should_ignore_column(col_name) ==
    \E pattern \in IGNORE_PATTERNS : Contains(col_name, pattern)

----------------------------------------------------------------------------
(* analyze_csv: the header.                                                *)

\* [i for i, h in enumerate(all_headers) if h == name], lines 83-84
RECURSIVE IndicesFrom(_, _, _)
IndicesFrom(headers, name, i) ==
    IF i >= Len(headers) THEN <<>>
    ELSE (IF headers[i + 1] = name THEN <<i>> ELSE <<>>)
         \o IndicesFrom(headers, name, i + 1)

IndicesOf(headers, name) == IndicesFrom(headers, name, 0)

Range(seq) == {seq[i] : i \in 1..Len(seq)}

\* The test of line 90 without `h != "billSubjectTerm"`.
KeepsHeaderWithTag(h, kept) ==
    /\ h \notin Range(kept)
    /\ ~should_ignore_column(h)

\* The test of line 90 for one header, given the names kept so far.
KeepsHeader(h, kept) ==
    /\ h \notin Range(kept)
    /\ h # BillSubjectTerm
    /\ ~should_ignore_column(h)

\* The loop of lines 87-92 over the first n headers.
RECURSIVE RelevantUpTo(_, _)
RelevantUpTo(headers, n) ==
    IF n = 0 THEN <<>>
    ELSE LET kept == RelevantUpTo(headers, n - 1)
             h == headers[n]
         IN  IF KeepsHeader(h, kept) THEN Append(kept, h) ELSE kept

RelevantHeaders(headers) == RelevantUpTo(headers, Len(headers))

\* One entry of the stats dict as created at lines 96-102.  types is the
\* defaultdict(int) as the sequence of its <<tag, count>> items in
\* insertion order.
NewStat ==
    [total |-> 0, filled |-> 0, empty |-> 0, types |-> <<>>,
     sample_values |-> <<>>]

----------------------------------------------------------------------------
(* analyze_csv: one data row.                                              *)

\* `idx < len(row_values) and row_values[idx] and row_values[idx].strip()`
\* (lines 123 and 134), idx counted from 0
CellFilled(row_values, idx) ==
    /\ idx < Len(row_values)
    /\ row_values[idx + 1] # <<>>
    /\ Strip(row_values[idx + 1]) # <<>>

\* defaultdict(int): counts[key] += 1
Incremented(counts, key) ==
    IF key \in DOMAIN counts
    THEN [counts EXCEPT ![key] = @ + 1]
    ELSE [k \in DOMAIN counts \cup {key} |->
              IF k = key THEN 1 ELSE counts[k]]

\* The loop of lines 122-126 counting a term once per row.
RECURSIVE TermsCountedOncePerRow(_, _, _, _)
TermsCountedOncePerRow(counts, row_values, indices, n) ==
    IF n = 0 THEN counts
    ELSE LET before == TermsCountedOncePerRow(counts, row_values, indices, n - 1)
             idx == indices[n]
         IN  IF /\ CellFilled(row_values, idx)
                /\ \A m \in 1..(n - 1) :
                       ~ /\ CellFilled(row_values, indices[m])
                         /\ Strip(row_values[indices[m] + 1])
                                = Strip(row_values[idx + 1])
             THEN Incremented(before, Strip(row_values[idx + 1]))
             ELSE before

\* The loop of lines 122-126 over the first n tag columns: the new
\* subject_term_counts.
RECURSIVE TermsCounted(_, _, _, _)
TermsCounted(counts, row_values, indices, n) ==
    IF n = 0 THEN counts
    ELSE LET before == TermsCounted(counts, row_values, indices, n - 1)
             idx == indices[n]
         IN  IF CellFilled(row_values, idx)
             THEN Incremented(before, Strip(row_values[idx + 1]))
             ELSE before

\* row_subject_terms is non-empty (line 128)
HasSubjectTerm(row_values, indices) ==
    \E n \in 1..Len(indices) : CellFilled(row_values, indices[n])

\* row_cosponsors without the `.strip()` of line 134.
RowCosponsorsUnstripped(row_values, indices) ==
    Cardinality({n \in 1..Len(indices) :
                    /\ indices[n] < Len(row_values)
                    /\ row_values[indices[n] + 1] # <<>>})

\* row_cosponsors, lines 132-135
RowCosponsors(row_values, indices) ==
    Cardinality({n \in 1..Len(indices) : CellFilled(row_values, indices[n])})

\* row_dict[col], lines 142-145: the cell under the first header named col
RowDictValue(headers, row_values, col) ==
    LET i == CHOOSE k \in 1..Len(headers) :
                 headers[k] = col /\ \A j \in 1..(k - 1) : headers[j] # col
    IN  IF i - 1 < Len(row_values) THEN row_values[i] ELSE <<>>

\* types[tag] = 1 in place of types[tag] += 1.
TypeCountedOverwritten(types, tag) ==
    IF \E i \in 1..Len(types) : types[i][1] = tag
    THEN [i \in 1..Len(types) |->
              IF types[i][1] = tag THEN <<tag, 1>> ELSE types[i]]
    ELSE Append(types, <<tag, 1>>)

\* types[tag] += 1 on the insertion-ordered items of the defaultdict
TypeCounted(types, tag) ==
    IF \E i \in 1..Len(types) : types[i][1] = tag
    THEN [i \in 1..Len(types) |->
              IF types[i][1] = tag THEN <<tag, types[i][2] + 1>> ELSE types[i]]
    ELSE Append(types, <<tag, 1>>)

\* The sample of line 159.
Sample(val) ==
    IF Len(val) > SampleLen
    THEN SubSeq(val, 1, SampleLen) \o <<".", ".", ".">>
    ELSE val

\* Lines 157-161 with `<=` in place of `<`.
SamplesWithOffByOne(samples, val) ==
    IF Len(samples) <= MaxSamples /\ Sample(val) \notin Range(samples)
    THEN Append(samples, Sample(val))
    ELSE samples

\* Lines 157-161: the sample list after a filled cell.
SamplesWith(samples, val) ==
    IF Len(samples) < MaxSamples /\ Sample(val) \notin Range(samples)
    THEN Append(samples, Sample(val))
    ELSE samples

\* Lines 149-164 with a cell of blanks counted as neither filled nor empty.
StatUpdatedBlankUncounted(s, val) ==
    IF val # <<>> /\ Strip(val) # <<>>
    THEN [s EXCEPT !.total = @ + 1,
                   !.filled = @ + 1,
                   !.types = TypeCounted(@, infer_type(val)),
                   !.sample_values = SamplesWith(@, val)]
    ELSE IF val = <<>>
    THEN [s EXCEPT !.total = @ + 1,
                   !.empty = @ + 1,
                   !.types = TypeCounted(@, "empty")]
    ELSE [s EXCEPT !.total = @ + 1,
                   !.types = TypeCounted(@, "empty")]

\* Lines 149-164 for one column and its cell.
StatUpdated(s, val) ==
    IF val # <<>> /\ Strip(val) # <<>>
    THEN [s EXCEPT !.total = @ + 1,
                   !.filled = @ + 1,
                   !.types = TypeCounted(@, infer_type(val)),
                   !.sample_values = SamplesWith(@, val)]
    ELSE [s EXCEPT !.total = @ + 1,
                   !.empty = @ + 1,
                   !.types = TypeCounted(@, "empty")]

----------------------------------------------------------------------------
(* print_report: buckets, primary types and the schema block.              *)

\* `fill_rate >= pct` for fill_rate of line 200, (filled / total) * 100 when
\* total > 0 and 0 otherwise, compared exactly.
FillRateAtLeast(s, pct) ==
    IF s.total > 0 THEN s.filled * 100 >= pct * s.total ELSE 0 >= pct

\* `fill_rate == 100` for fill_rate of line 200.
FillRateIs100(s) ==
    IF s.total > 0 THEN s.filled * 100 = 100 * s.total ELSE FALSE

\* The cascade of lines 202-209 with `>` in place of `>=` at line 204.
BucketStrict(s) ==
    IF FillRateIs100(s) THEN "always_filled"
    ELSE IF s.total > 0 /\ s.filled * 100 > 90 * s.total THEN "mostly_filled"
    ELSE IF FillRateAtLeast(s, 50) THEN "sometimes_filled"
    ELSE "rarely_filled"

\* The cascade of lines 202-209: the bucket of a column with stats s.
Bucket(s) ==
    IF FillRateIs100(s) THEN "always_filled"
    ELSE IF FillRateAtLeast(s, 90) THEN "mostly_filled"
    ELSE IF FillRateAtLeast(s, 50) THEN "sometimes_filled"
    ELSE "rarely_filled"

\* The sub-sequence of cols whose bucket is b: the appends of lines 199-209
\* in the iteration order of the columns dict.
RECURSIVE BucketList(_, _, _)
BucketList(cols, st, b) ==
    IF cols = <<>> THEN <<>>
    ELSE (IF Bucket(st[Head(cols)]) = b THEN <<Head(cols)>> ELSE <<>>)
         \o BucketList(Tail(cols), st, b)

\* The key of max() at lines 216, 229, 241 and 304.
TypeKey(item) == IF item[1] # "empty" THEN item[2] ELSE 0

\* max(items, key=...)[0], keys[i] being the key of items[i]: the tag of
\* the first item, in insertion order, of greatest key
MaxItem(items, keys) ==
    LET i == CHOOSE k \in 1..Len(items) :
                 /\ \A j \in 1..Len(items) : keys[j] <= keys[k]
                 /\ \A j \in 1..(k - 1) : keys[j] < keys[k]
    IN  items[i][1]

\* max() over an empty sequence raises ValueError (lines 216, 229, 241, 304)
PrimaryTypeRaises(cols, st) ==
    \E i \in 1..Len(cols) : st[cols[i]].types = <<>>

CountKey(item) == item[2]

\* non_empty_types, lines 254 and 316
NonEmptyTypes(types) == SelectSeq(types, LAMBDA item : item[1] # "empty")

\* primary_type of line 304 (always-filled columns)
PrimaryTypeFilled(s) ==
    MaxItem(s.types, [i \in 1..Len(s.types) |-> TypeKey(s.types[i])])

\* primary_type of line 317 (all other columns)
PrimaryTypeNullable(s) ==
    IF NonEmptyTypes(s.types) # <<>>
    THEN LET items == NonEmptyTypes(s.types)
         IN  MaxItem(items, [i \in 1..Len(items) |-> CountKey(items[i])])
    ELSE "string"

\* sql_type, lines 305-311 and 318-324
SqlType(primary_type) ==
    IF primary_type = "date" THEN "DATE"
    ELSE IF primary_type = "url" THEN "TEXT"
    ELSE IF primary_type = "integer" THEN "INTEGER"
    ELSE "TEXT"

\* col.lower().replace(" ", "_").replace("-", "_"), lines 303 and 315
ColName(col) ==
    [i \in 1..Len(col) |->
        IF LowerOf(col[i]) \in {" ", "-"} THEN "_" ELSE LowerOf(col[i])]

\* The fields printed by the loop of lines 302-312.
NotNullFields(cols, st) ==
    [i \in 1..Len(cols) |->
        [col |-> cols[i], col_name |-> ColName(cols[i]),
         sql_type |-> SqlType(PrimaryTypeFilled(st[cols[i]])),
         not_null |-> TRUE]]

\* The fields printed by the loop of lines 314-325.
NullableFields(cols, st) ==
    [i \in 1..Len(cols) |->
        [col |-> cols[i], col_name |-> ColName(cols[i]),
         sql_type |-> SqlType(PrimaryTypeNullable(st[cols[i]])),
         not_null |-> FALSE]]

\* The schema block with the second loop over mostly_filled +
\* sometimes_filled only.
SchemaFieldsWithoutRarely(always, mostly, sometimes, rarely, st) ==
    NotNullFields(always, st) \o NullableFields(mostly \o sometimes, st)

\* The schema block, lines 298-329: the always-filled columns first, then
\* mostly_filled + sometimes_filled + rarely_filled.
SchemaFields(always, mostly, sometimes, rarely, st) ==
    NotNullFields(always, st)
        \o NullableFields(mostly \o sometimes \o rarely, st)

\* The steps of print_report in order.  Each names what it writes when it
\* completes (out), whether it raises, and what it has written by then
\* (partial).
ReportSteps(always, mostly, sometimes, st, n_rows, terms) ==
    << [out |-> <<"title", "counts">>, raises |-> FALSE, partial |-> <<>>],
       [out |-> <<"always_filled">>,
        raises |-> PrimaryTypeRaises(always, st),
        partial |-> <<"always_header">>],
       [out |-> <<"mostly_filled">>,
        raises |-> PrimaryTypeRaises(mostly, st),
        partial |-> <<"mostly_header">>],
       [out |-> <<"sometimes_filled">>,
        raises |-> PrimaryTypeRaises(sometimes, st),
        partial |-> <<"sometimes_header">>],
       [out |-> <<"rarely_filled">>, raises |-> FALSE, partial |-> <<>>],
       \* lines 263-270: the division by total_rows at line 268
       [out |-> <<"cosponsor_header", "cosponsor_stats">>,
        raises |-> n_rows = 0,
        partial |-> <<"cosponsor_header">>],
       \* lines 272-291: the division by total_rows at line 278
       [out |-> <<"subject_header", "subject_stats">>
                    \o (IF DOMAIN terms # {} THEN <<"top_terms">> ELSE <<>>),
        raises |-> n_rows = 0,
        partial |-> <<"subject_header">>],
       \* lines 293-329
       [out |-> <<"schema">>,
        raises |-> PrimaryTypeRaises(always, st),
        partial |-> <<"schema_header">>],
       [out |-> <<"footer">>, raises |-> FALSE, partial |-> <<>>] >>

\* What the steps write and whether the run of them completed: a step that
\* raises ends the run.
RECURSIVE RunSteps(_)
RunSteps(steps) ==
    IF steps = <<>> THEN [out |-> <<>>, completed |-> TRUE]
    ELSE IF Head(steps).raises
         THEN [out |-> Head(steps).partial, completed |-> FALSE]
         ELSE LET rest == RunSteps(Tail(steps))
              IN  [out |-> Head(steps).out \o rest.out,
                   completed |-> rest.completed]

----------------------------------------------------------------------------
(* The storage wrapper, n8n/supaBaseCsvParser.py.  An Optional[str] is     *)
(* <<>> for None and <<s>> for the str s.                                  *)

None == <<>>

\* The truth value of an Optional[str]: None and "" are false.
Truthy(opt) == opt # None /\ opt[1] # ""

\* `a or b`
Or(a, b) == IF Truthy(a) THEN a ELSE b

\* The environment variables the wrapper reads (lines 28, 29, 166, 167).
EnvNames ==
    {"SUPABASE_URL", "SUPABASE_KEY", "SUPABASE_BUCKET_NAME",
     "KICKSTART_CSV_NAME"}

\* A variable is unset, set to the empty string, or set.
Environments == [EnvNames -> {None, <<"">>, <<"env">>}]

\* An optional argument is left out or None, the empty string, or given.
Arguments == {None, <<"">>, <<"arg">>}

\* What the supabase and toon libraries do once called.
Externals ==
    {"ok", "create_client_raises", "download_raises", "decode_raises"}

NoCall == [fn |-> "", bucket_name |-> None, file_path |-> None]

\* get_supabase_client with only the URL required.
get_supabase_client_url_only(env, ext) ==
    LET url == env["SUPABASE_URL"]
        key == env["SUPABASE_KEY"]
        call == [op |-> "create_client", a |-> url, b |-> key]
    IN  IF ~Truthy(url)
        THEN [events |-> <<>>, raised |-> "ValueError: credentials"]
        ELSE IF ext = "create_client_raises"
        THEN [events |-> <<call>>, raised |-> "create_client"]
        ELSE [events |-> <<call>>, raised |-> ""]

\* get_supabase_client(), lines 20-37: the library calls made and the
\* exception raised ("" for none).
get_supabase_client(env, ext) ==
    LET url == env["SUPABASE_URL"]
        key == env["SUPABASE_KEY"]
        call == [op |-> "create_client", a |-> url, b |-> key]
    IN  IF ~Truthy(url) \/ ~Truthy(key)
        THEN [events |-> <<>>, raised |-> "ValueError: credentials"]
        ELSE IF ext = "create_client_raises"
        THEN [events |-> <<call>>, raised |-> "create_client"]
        ELSE [events |-> <<call>>, raised |-> ""]

\* The body shared by the three fetch functions (lines 169-178, 201-210,
\* 230-238): the two checks, get_supabase_client, download_csv_from_bucket
\* (lines 40-57), then csv_bytes_to_rows and the encoding of the result.
Fetched(bucket, file_name, env, ext) ==
    IF ~Truthy(bucket)
    THEN [events |-> <<>>, result |-> "ValueError: bucket"]
    ELSE IF ~Truthy(file_name)
    THEN [events |-> <<>>, result |-> "ValueError: file"]
    ELSE LET client == get_supabase_client(env, ext)
             download == [op |-> "download", a |-> bucket, b |-> file_name]
         IN  IF client.raised # ""
             THEN [events |-> client.events, result |-> client.raised]
             ELSE IF ext = "download_raises"
             THEN [events |-> Append(client.events, download),
                   result |-> "download"]
             ELSE IF ext = "decode_raises"
             THEN [events |-> Append(client.events, download),
                   result |-> "decode"]
             ELSE [events |-> Append(client.events, download),
                   result |-> "returned"]

\* load_dotenv() at import, line 17: the environment the calls will see.
LoadDotenv(env) ==
    /\ fetch_pc = "import"
    /\ fetch_pc' = "ready"
    /\ environ' = env
    /\ UNCHANGED <<analysis_vars, value, dtype, fetch_call, fetch_events,
                   fetch_result>>

\* fetch_kickstart_csv_as_toon(), lines 150-178
fetch_kickstart_csv_as_toon(ext) ==
    /\ fetch_pc = "ready"
    /\ LET bucket_name == environ["SUPABASE_BUCKET_NAME"]
           csv_filename == environ["KICKSTART_CSV_NAME"]
           run == Fetched(bucket_name, csv_filename, environ, ext)
       IN  /\ fetch_call' = [fn |-> "fetch_kickstart_csv_as_toon",
                             bucket_name |-> None, file_path |-> None]
           /\ fetch_events' = run.events
           /\ fetch_result' = run.result
    /\ UNCHANGED <<analysis_vars, value, dtype, fetch_pc, environ>>

\* fetch_csv_as_toon(bucket_name, file_path), lines 181-210
fetch_csv_as_toon(bucket_name, file_path, ext) ==
    /\ fetch_pc = "ready"
    /\ LET bucket == Or(bucket_name, environ["SUPABASE_BUCKET_NAME"])
           file_name == Or(file_path, environ["KICKSTART_CSV_NAME"])
           run == Fetched(bucket, file_name, environ, ext)
       IN  /\ fetch_call' = [fn |-> "fetch_csv_as_toon",
                             bucket_name |-> bucket_name,
                             file_path |-> file_path]
           /\ fetch_events' = run.events
           /\ fetch_result' = run.result
    /\ UNCHANGED <<analysis_vars, value, dtype, fetch_pc, environ>>

\* fetch_csv_as_rows(bucket_name, file_path), lines 213-238
fetch_csv_as_rows(bucket_name, file_path, ext) ==
    /\ fetch_pc = "ready"
    /\ LET bucket == Or(bucket_name, environ["SUPABASE_BUCKET_NAME"])
           file_name == Or(file_path, environ["KICKSTART_CSV_NAME"])
           run == Fetched(bucket, file_name, environ, ext)
       IN  /\ fetch_call' = [fn |-> "fetch_csv_as_rows",
                             bucket_name |-> bucket_name,
                             file_path |-> file_path]
           /\ fetch_events' = run.events
           /\ fetch_result' = run.result
    /\ UNCHANGED <<analysis_vars, value, dtype, fetch_pc, environ>>

----------------------------------------------------------------------------
(* The input files the model analyses.                                     *)

A == <<"A">>
B == <<"B">>
LawNo == <<"L", "a", "w", "-", "N", "o">>
Cosponsors == <<"C", "o", "s", "p", "o", "n", "s", "o", "r", "s">>

\* Header lines: a tag field in two columns; two Cosponsor columns, after
\* two columns and after one; three relevant columns with a name to
\* normalise, a repeated name and a name ignored by substring.
Headers ==
    { <<A, BillSubjectTerm, BillSubjectTerm>>,
      <<B, A, Cosponsor, Cosponsor>>,
      <<A, Cosponsor, Cosponsor>>,
      <<LawNo, A, B, A, Cosponsors>> }

\* A value longer than SampleLen: SampleLen times "a", then tail.
LongValue(tail) == [i \in 1..SampleLen |-> "a"] \o tail

\* Data rows under Spec: rows shorter and longer than the header and the
\* empty row of a blank line, blank and padded cells, values of several
\* types, two long values that share their first SampleLen characters.
DataRows ==
    { <<>>,
      << <<"1">>, <<>>, <<"x">> >>,
      << <<"2">>, <<"y">>, <<>> >>,
      << <<"4", "2", ".", "5">>, <<" ", "x", " ">>, <<"x">>, <<"z">>, <<"w">> >>,
      << LongValue(<<"b">>) >>,
      << LongValue(<<"c", "d">>), <<" ">>, <<"y">> >> }

\* Data rows under SpecReport: the second cell always filled, and either
\* the first or the third.
ReportRows ==
    { << <<"1">>, <<"x">>, <<>> >>,
      << <<>>, <<"x">>, <<"y">> >> }

----------------------------------------------------------------------------
(* main, lines 334-358.                                                    *)

Init ==
    /\ pc = "main"
    /\ exit_code = -1
    /\ stdout = <<>>
    /\ all_headers = <<>>
    /\ subject_term_indices = <<>>
    /\ cosponsor_indices = <<>>
    /\ relevant_headers = <<>>
    /\ stats = <<>>
    /\ subject_term_counts = <<>>
    /\ bills_with_subject_terms = 0
    /\ total_cosponsors = 0
    /\ bills_with_cosponsors = 0
    /\ total_rows = 0
    /\ rows = <<>>
    /\ always_filled = <<>>
    /\ mostly_filled = <<>>
    /\ sometimes_filled = <<>>
    /\ rarely_filled = <<>>
    /\ schema = <<>>
    /\ value = <<>>
    /\ dtype = ""
    /\ fetch_pc = "import"
    /\ environ = [name \in EnvNames |-> None]
    /\ fetch_call = NoCall
    /\ fetch_events = <<>>
    /\ fetch_result = ""

\* Lines 347-348, written before analyze_csv is called.
Banner == <<"analyzing", "please_wait">>

\* open() raises FileNotFoundError (line 73); handled at lines 353-355.
FileNotFound ==
    /\ pc = "main"
    /\ pc' = "exit"
    /\ stdout' = Banner \o <<"error_file_not_found">>
    /\ exit_code' = 1
    /\ UNCHANGED <<all_headers, subject_term_indices, cosponsor_indices,
                   relevant_headers, stats, subject_term_counts,
                   bills_with_subject_terms, total_cosponsors,
                   bills_with_cosponsors, total_rows, rows, always_filled,
                   mostly_filled, sometimes_filled, rarely_filled, schema,
                   value, dtype, fetch_vars>>

\* The file holds n_lines <= MetadataLines lines: a next(f) of lines 76-79
\* raises StopIteration; handled at lines 356-358.
NoHeaderLine ==
    /\ pc = "main"
    /\ \E n_lines \in 0..MetadataLines :
           /\ pc' = "exit"
           /\ stdout' = Banner \o <<"error">>
           /\ exit_code' = 1
    /\ UNCHANGED <<all_headers, subject_term_indices, cosponsor_indices,
                   relevant_headers, stats, subject_term_counts,
                   bills_with_subject_terms, total_cosponsors,
                   bills_with_cosponsors, total_rows, rows, always_filled,
                   mostly_filled, sometimes_filled, rarely_filled, schema,
                   value, dtype, fetch_vars>>

\* analyze_csv up to the loop over the rows, lines 73-116, for a file whose
\* header line is headers.
ReadHeader(headers) ==
    /\ pc = "main"
    /\ pc' = "rows"
    /\ stdout' = Banner
    /\ all_headers' = headers
    /\ subject_term_indices' = IndicesOf(headers, BillSubjectTerm)
    /\ cosponsor_indices' = IndicesOf(headers, Cosponsor)
    /\ relevant_headers' = RelevantHeaders(headers)
    /\ stats' = [col \in Range(RelevantHeaders(headers)) |-> NewStat]
    /\ subject_term_counts' = <<>>
    /\ bills_with_subject_terms' = 0
    /\ total_cosponsors' = 0
    /\ bills_with_cosponsors' = 0
    /\ total_rows' = 0
    /\ UNCHANGED <<exit_code, rows, always_filled, mostly_filled,
                   sometimes_filled, rarely_filled, schema, value, dtype, fetch_vars>>

\* One iteration of the loop of lines 117-164, for the row row_values.
ProcessRow(row_values) ==
    /\ pc = "rows"
    /\ rows' = Append(rows, row_values)
    /\ total_rows' = total_rows + 1
    /\ subject_term_counts' =
           TermsCounted(subject_term_counts, row_values,
                        subject_term_indices, Len(subject_term_indices))
    /\ bills_with_subject_terms' =
           IF HasSubjectTerm(row_values, subject_term_indices)
           THEN bills_with_subject_terms + 1
           ELSE bills_with_subject_terms
    /\ LET row_cosponsors == RowCosponsors(row_values, cosponsor_indices)
       IN  IF row_cosponsors > 0
           THEN /\ bills_with_cosponsors' = bills_with_cosponsors + 1
                /\ total_cosponsors' = total_cosponsors + row_cosponsors
           ELSE UNCHANGED <<bills_with_cosponsors, total_cosponsors>>
    /\ stats' = [col \in DOMAIN stats |->
                    StatUpdated(stats[col],
                                RowDictValue(all_headers, row_values, col))]
    /\ UNCHANGED <<pc, exit_code, stdout, all_headers, subject_term_indices,
                   cosponsor_indices, relevant_headers, always_filled,
                   mostly_filled, sometimes_filled, rarely_filled, schema,
                   value, dtype, fetch_vars>>

\* Reading the next row raises (a line that is not UTF-8, a csv.Error);
\* handled at lines 356-358.
ReadError ==
    /\ pc = "rows"
    /\ pc' = "exit"
    /\ stdout' = Append(stdout, "error")
    /\ exit_code' = 1
    /\ UNCHANGED <<all_headers, subject_term_indices, cosponsor_indices,
                   relevant_headers, stats, subject_term_counts,
                   bills_with_subject_terms, total_cosponsors,
                   bills_with_cosponsors, total_rows, rows, always_filled,
                   mostly_filled, sometimes_filled, rarely_filled, schema,
                   value, dtype, fetch_vars>>

\* The reader is exhausted: analyze_csv returns (lines 166-177).
EndOfFile ==
    /\ pc = "rows"
    /\ pc' = "report"
    /\ UNCHANGED <<exit_code, stdout, all_headers, subject_term_indices,
                   cosponsor_indices, relevant_headers, stats,
                   subject_term_counts, bills_with_subject_terms,
                   total_cosponsors, bills_with_cosponsors, total_rows, rows,
                   always_filled, mostly_filled, sometimes_filled,
                   rarely_filled, schema, value, dtype, fetch_vars>>

\* print_report(analysis), lines 180-331, and the end of main: the exception
\* handler of lines 356-358 when a step raises, the normal return otherwise.
print_report ==
    /\ pc = "report"
    /\ pc' = "exit"
    /\ LET always == BucketList(relevant_headers, stats, "always_filled")
           mostly == BucketList(relevant_headers, stats, "mostly_filled")
           sometimes == BucketList(relevant_headers, stats, "sometimes_filled")
           rarely == BucketList(relevant_headers, stats, "rarely_filled")
           run == RunSteps(ReportSteps(always, mostly, sometimes, stats,
                                       total_rows, subject_term_counts))
       IN  /\ always_filled' = always
           /\ mostly_filled' = mostly
           /\ sometimes_filled' = sometimes
           /\ rarely_filled' = rarely
           /\ IF run.completed
              THEN /\ stdout' = stdout \o run.out
                   /\ exit_code' = 0
              ELSE /\ stdout' = stdout \o run.out \o <<"error">>
                   /\ exit_code' = 1
           /\ schema' = IF "schema" \in Range(run.out)
                        THEN SchemaFields(always, mostly, sometimes, rarely,
                                          stats)
                        ELSE <<>>
    /\ UNCHANGED <<all_headers, subject_term_indices, cosponsor_indices,
                   relevant_headers, stats, subject_term_counts,
                   bills_with_subject_terms, total_cosponsors,
                   bills_with_cosponsors, total_rows, rows, value, dtype, fetch_vars>>

\* main on a file of at most max_rows data rows drawn from data_rows.
Run(data_rows, max_rows) ==
    \/ FileNotFound
    \/ NoHeaderLine
    \/ \E headers \in Headers : ReadHeader(headers)
    \/ \E row_values \in data_rows :
           total_rows < max_rows /\ ProcessRow(row_values)
    \/ ReadError
    \/ EndOfFile
    \/ print_report

Next == Run(DataRows, MaxRows)

Spec == Init /\ [][Next]_vars

NextTerms == Run(DataRows, MaxTermRows)

SpecTerms == Init /\ [][NextTerms]_vars

NextReport == Run(ReportRows, MaxReportRows)

SpecReport == Init /\ [][NextReport]_vars

----------------------------------------------------------------------------
(* infer_type alone: one call on an argument built from tokens.            *)

Tokens ==
    { Http, Https, <<"0", "1", "/">>, <<"1", "5", "/">>,
      <<"2", "0", "2", "4">>, <<"-", "0", "1">>, <<"-", "1", "5">>,
      <<"4", "2">>, <<".", "5">>, <<"h", "e", "l", "l", "o">>, <<" ">>,
      <<"e", "5">>, <<"+">>, <<"_">>, <<"n", "a", "n">>, <<"/">> }

RECURSIVE Concat(_)
Concat(seqs) == IF seqs = <<>> THEN <<>> ELSE Head(seqs) \o Concat(Tail(seqs))

\* The arguments: the concatenations of at most MaxTokens tokens.
InferInputs ==
    {Concat(ts) : ts \in UNION {[1..n -> Tokens] : n \in 0..MaxTokens}}

\* One call infer_type(val).
CallInferType(val) ==
    /\ value' = val
    /\ dtype' = infer_type(val)
    /\ UNCHANGED <<analysis_vars, fetch_vars>>

\* A run makes one call.
NextInfer == dtype = "" /\ \E val \in InferInputs : CallInferType(val)

SpecInfer == Init /\ [][NextInfer]_vars

----------------------------------------------------------------------------
(* The storage wrapper: calls of the fetch functions under one             *)
(* environment.                                                            *)

NextFetch ==
    \/ \E env \in Environments : LoadDotenv(env)
    \/ \E ext \in Externals : fetch_kickstart_csv_as_toon(ext)
    \/ \E bucket_name, file_path \in Arguments, ext \in Externals :
           fetch_csv_as_toon(bucket_name, file_path, ext)
    \/ \E bucket_name, file_path \in Arguments, ext \in Externals :
           fetch_csv_as_rows(bucket_name, file_path, ext)

SpecFetch == Init /\ [][NextFetch]_vars

----------------------------------------------------------------------------
(* Properties of analyze_csv.                                              *)

\* The relevant columns, once the header has been read.
Columns == Range(relevant_headers)

\* C1: after any sequence of data rows, ragged ones included, every
\* relevant column has filled + empty = total, and total is total_rows, the
\* number of data rows processed so far.
C1_FilledPlusEmptyIsTotal ==
    /\ DOMAIN stats = Columns
    /\ total_rows = Len(rows)
    /\ \A col \in Columns :
           /\ stats[col].filled + stats[col].empty = stats[col].total
           /\ stats[col].total = total_rows

\* A column with filled and missing cells, after a row shorter and a row
\* longer than the header and a cell of blanks under the column.
C1_Witness ==
    /\ \E i \in 1..Len(rows) : Len(rows[i]) < Len(all_headers)
    /\ \E i \in 1..Len(rows) : Len(rows[i]) > Len(all_headers)
    /\ \E col \in Columns :
           /\ stats[col].filled > 0
           /\ stats[col].empty > 0
           /\ \E i \in 1..Len(rows) :
                  LET val == RowDictValue(all_headers, rows[i], col)
                  IN  val # <<>> /\ \A k \in 1..Len(val) : val[k] = " "

RECURSIVE SumOfCounts(_)
SumOfCounts(items) ==
    IF items = <<>> THEN 0 ELSE Head(items)[2] + SumOfCounts(Tail(items))

\* C2: after any sequence of data rows, the values of every relevant
\* column's types histogram ("empty" included) sum to the column's total.
C2_TypesSumToTotal ==
    \A col \in Columns : SumOfCounts(stats[col].types) = stats[col].total

\* A column whose histogram holds "empty" and two other tags, one of them
\* counted more than once.
C2_Witness ==
    \E col \in Columns :
        LET types == stats[col].types
        IN  /\ Len(types) >= 3
            /\ \E i \in 1..Len(types) : types[i][1] = "empty"
            /\ \E i \in 1..Len(types) : types[i][2] >= 2

\* The samples of the filled cells of column col in the rows rs, in order.
RECURSIVE SamplesSeen(_, _)
SamplesSeen(col, rs) ==
    IF rs = <<>> THEN <<>>
    ELSE LET val == RowDictValue(all_headers, rs[Len(rs)], col)
             earlier == SamplesSeen(col, SubSeq(rs, 1, Len(rs) - 1))
         IN  IF \E k \in 1..Len(val) : val[k] \notin Whitespace
             THEN Append(earlier, Sample(val))
             ELSE earlier

\* The distinct entries of seq, each at the place of its first occurrence.
FirstOccurrences(seq) ==
    LET RECURSIVE Keep(_)
        Keep(n) ==
            IF n = 0 THEN <<>>
            ELSE IF \E j \in 1..(n - 1) : seq[j] = seq[n]
                 THEN Keep(n - 1)
                 ELSE Append(Keep(n - 1), seq[n])
    IN  Keep(Len(seq))

\* C8: after any sequence of data rows, every relevant column's
\* sample_values holds at most 3 entries, no entry twice, in the order in
\* which the values were first seen: it is the first 3 distinct samples of
\* the column's filled cells.
C8_SamplesBoundedDistinctFirstSeen ==
    \A col \in Columns :
        LET samples == stats[col].sample_values
            seen == FirstOccurrences(SamplesSeen(col, rows))
        IN  /\ Len(samples) <= 3
            /\ \A i, j \in 1..Len(samples) : i # j => samples[i] # samples[j]
            /\ samples = SubSeq(seen, 1, IF Len(seen) < 3 THEN Len(seen) ELSE 3)

\* A column that has seen more distinct samples than it keeps, a long
\* value among them.
C8_Witness ==
    \E col \in Columns :
        LET all == SamplesSeen(col, rows)
        IN  /\ Len(stats[col].sample_values) = 3
            /\ Len(FirstOccurrences(all)) > 3
            /\ \E i \in 1..Len(all) : Len(all[i]) > SampleLen


\* The orders (permutations of 1..n) of the n rows of a file.
RowOrders ==
    [n \in 0..MaxTermRows |->
        {p \in [1..n -> 1..n] : \A i, j \in 1..n : i # j => p[i] # p[j]}]

\* subject_term_counts after the loop of lines 117-129 over the rows rs,
\* starting from the empty mapping of line 107.
RECURSIVE TermsCountedOver(_)
TermsCountedOver(rs) ==
    IF rs = <<>> THEN <<>>
    ELSE TermsCounted(TermsCountedOver(SubSeq(rs, 1, Len(rs) - 1)),
                      rs[Len(rs)], subject_term_indices,
                      Len(subject_term_indices))

\* The tag cells of the processed rows: <<row, occurrence-column>> pairs.
TagCells ==
    {c \in (1..Len(rows)) \X Range(subject_term_indices) :
        c[2] < Len(rows[c[1]])}

\* The content of a tag cell without its leading and trailing blanks.
Trimmed(c) == Strip(rows[c[1]][c[2] + 1])

\* subject_term_counts never loses a term and no count decreases.
TermCountsGrow ==
    \A term \in DOMAIN subject_term_counts :
        /\ term \in DOMAIN subject_term_counts'
        /\ subject_term_counts'[term] >= subject_term_counts[term]

\* The mapping holds exactly the non-blank trimmed tag cells, each with the
\* number of cells, over all rows and occurrence-columns, that hold it.
TermCountsAreCellCounts ==
    /\ DOMAIN subject_term_counts
           = {Trimmed(c) : c \in TagCells} \ {<<>>}
    /\ \A term \in DOMAIN subject_term_counts :
           subject_term_counts[term]
               = Cardinality({c \in TagCells : Trimmed(c) = term})

\* Processing the same rows in any other order yields the same mapping.
TermCountsOrderIndependent ==
    \A p \in RowOrders[Len(rows)] :
        TermsCountedOver([i \in 1..Len(rows) |-> rows[p[i]]])
            = subject_term_counts

\* C9: the tag-frequency counts never decrease as further rows are
\* processed; the mapping is the same for every order of the same rows, and
\* each value's count is the number of tag cells, over all rows and all
\* tag occurrence-columns, whose trimmed content equals the value.
C9_TermCountsMonotoneOrderIndependent ==
    /\ [][TermCountsGrow]_vars
    /\ [](TermCountsAreCellCounts /\ TermCountsOrderIndependent)

\* Three rows, one of which holds the same term in both occurrence-columns,
\* once with blanks around it, and a term counted in two rows.
C9_Witness ==
    /\ Len(rows) = 3
    /\ Len(subject_term_indices) = 2
    /\ \E term \in DOMAIN subject_term_counts :
           /\ subject_term_counts[term] = 3
           /\ \E i \in 1..Len(rows) :
                  /\ Len(rows[i]) > 2
                  /\ rows[i][2] # rows[i][3]
                  /\ Strip(rows[i][2]) = term
                  /\ Strip(rows[i][3]) = term


\* The file of the scenario: header A,B,B with B the tag field name, and
\* the data rows 1,,x and 2,y, read to the end.
C5_File ==
    /\ pc = "report"
    /\ all_headers = <<A, BillSubjectTerm, BillSubjectTerm>>
    /\ rows = << << <<"1">>, <<>>, <<"x">> >>, << <<"2">>, <<"y">>, <<>> >> >>

C5_ColumnA ==
    /\ A \in DOMAIN stats
    /\ stats[A].total = 2
    /\ stats[A].filled = 2
    /\ stats[A].types = << <<"integer", 2>> >>

\* C5 as stated: on that file, column A has total 2, filled 2 and types
\* {integer: 2}; the first B column is kept in the relevant-column list and
\* has its own stats entry with total 2 and filled 1; and the tag-frequency
\* mapping is exactly {x: 1}.
C5_FirstTagColumnHasOwnStats ==
    C5_File =>
        /\ C5_ColumnA
        /\ BillSubjectTerm \in Range(relevant_headers)
        /\ BillSubjectTerm \in DOMAIN stats
        /\ stats[BillSubjectTerm].total = 2
        /\ stats[BillSubjectTerm].filled = 1
        /\ DOMAIN subject_term_counts = {<<"x">>}
        /\ subject_term_counts[<<"x">>] = 1

\* C5 as amended: on that file, column A has total 2, filled 2 and types
\* {integer: 2}; no column named B is in the relevant-column list or has a
\* stats entry; both B columns feed the tag counters, so the tag-frequency
\* mapping is exactly {x: 1, y: 1} and both rows count as having a tag.
C5_AllTagColumnsFeedTagCounters ==
    C5_File =>
        /\ C5_ColumnA
        /\ relevant_headers = <<A>>
        /\ DOMAIN stats = {A}
        /\ subject_term_indices = <<1, 2>>
        /\ DOMAIN subject_term_counts = {<<"x">>, <<"y">>}
        /\ subject_term_counts[<<"x">>] = 1
        /\ subject_term_counts[<<"y">>] = 1
        /\ bills_with_subject_terms = 2

C5_Witness == C5_File /\ total_rows = 2

\* The cell of row i under the column of index idx (from 0) holds a
\* character that is not a blank.
NonBlankCell(i, idx) ==
    /\ idx < Len(rows[i])
    /\ \E k \in 1..Len(rows[i][idx + 1]) :
           rows[i][idx + 1][k] \notin Whitespace

\* The processed rows with a non-blank cell in one of the columns indices.
RowsWithValue(indices) ==
    {i \in 1..Len(rows) : \E idx \in Range(indices) : NonBlankCell(i, idx)}

\* The non-blank cells of the processed rows in the columns indices.
CellsWithValue(indices) ==
    {c \in (1..Len(rows)) \X Range(indices) : NonBlankCell(c[1], c[2])}

\* C11: after any sequence of data rows, bills_with_cosponsors and
\* bills_with_subject_terms are the numbers of processed rows with at least
\* one non-blank cell among the field's occurrence-columns, and
\* total_cosponsors is the number of non-blank Cosponsor cells; hence both
\* row counters are at most total_rows, and bills_with_cosponsors <=
\* total_cosponsors <= bills_with_cosponsors * (number of Cosponsor columns).
C11_MultiValuedFieldCounters ==
    /\ bills_with_cosponsors = Cardinality(RowsWithValue(cosponsor_indices))
    /\ bills_with_subject_terms
           = Cardinality(RowsWithValue(subject_term_indices))
    /\ total_cosponsors = Cardinality(CellsWithValue(cosponsor_indices))
    /\ bills_with_cosponsors <= total_rows
    /\ bills_with_subject_terms <= total_rows
    /\ bills_with_cosponsors <= total_cosponsors
    /\ total_cosponsors <= bills_with_cosponsors * Len(cosponsor_indices)

\* Two Cosponsor columns; a row with both cells filled, a row with one
\* filled and the other of blanks only, and a row too short to have either.
C11_Witness ==
    /\ Len(cosponsor_indices) = 2
    /\ bills_with_cosponsors = 2
    /\ total_cosponsors = 3
    /\ total_rows = 3
    /\ \E i \in 1..Len(rows) :
           /\ Len(rows[i]) > cosponsor_indices[1]
           /\ rows[i][cosponsor_indices[1] + 1] # <<>>
           /\ ~NonBlankCell(i, cosponsor_indices[1])
    /\ \E i \in 1..Len(rows) : Len(rows[i]) <= cosponsor_indices[1]

----------------------------------------------------------------------------
(* Properties of print_report and main.                                    *)

\* print_report has been entered.
ReportStarted == "title" \in Range(stdout)

\* What main writes outside print_report.
NonReportOutput == Range(Banner) \cup {"error", "error_file_not_found"}

\* C3: with zero data rows after the metadata lines and the header, the run
\* of analyze_csv and print_report ends without an error: total_rows is 0,
\* every relevant column has total = filled = empty = 0 and is in the
\* rarely-filled bucket, and the whole report is written.
C3_EmptyFileReportCompletes ==
    (pc = "exit" /\ ReportStarted /\ rows = <<>>) =>
        /\ total_rows = 0
        /\ \A col \in Columns :
               /\ stats[col].total = 0
               /\ stats[col].filled = 0
               /\ stats[col].empty = 0
        /\ rarely_filled = relevant_headers
        /\ exit_code = 0
        /\ "error" \notin Range(stdout)
        /\ "schema" \in Range(stdout)
        /\ "footer" \in Range(stdout)

\* C4: a run that ends with an error (a non-zero exit status) has written
\* no part of the report; report sections are written only by runs that
\* write the whole report.
C4_ReportAllOrNothing ==
    pc = "exit" =>
        /\ exit_code # 0 => Range(stdout) \subseteq NonReportOutput
        /\ ReportStarted => "footer" \in Range(stdout)

\* The rank of a column's fill rate filled / total: 1 for 100%, 2 for at
\* least 90%, 3 for at least 50%, 4 below that or when total is 0.
FillRank(s) ==
    IF s.total = 0 THEN 4
    ELSE IF s.filled = s.total THEN 1
    ELSE IF 10 * s.filled >= 9 * s.total THEN 2
    ELSE IF 2 * s.filled >= s.total THEN 3
    ELSE 4

\* The schema block has been written.
SchemaPrinted == "schema" \in Range(stdout)

\* The places of column col in the schema.
FieldsOf(col) == {i \in 1..Len(schema) : schema[i].col = col}

\* One field per relevant column, NOT NULL exactly for the always-filled.
OneFieldPerColumn ==
    /\ Len(schema) = Len(relevant_headers)
    /\ \A col \in Columns :
           /\ Cardinality(FieldsOf(col)) = 1
           /\ \A i \in FieldsOf(col) :
                  /\ schema[i].col_name = ColName(col)
                  /\ schema[i].not_null <=> FillRank(stats[col]) = 1

\* C6 as stated: the schema lists exactly one field per relevant column,
\* NOT NULL for the always-filled and nullable for the others, and for any
\* two relevant columns the one earlier in relevant_headers comes earlier.
C6_SchemaInHeaderOrder ==
    SchemaPrinted =>
        /\ OneFieldPerColumn
        /\ \A i, j \in 1..Len(relevant_headers) :
               i < j =>
                   \A m \in FieldsOf(relevant_headers[i]) :
                       \A n \in FieldsOf(relevant_headers[j]) : m < n

\* C6 as amended: the schema lists exactly one field per relevant column,
\* NOT NULL for the always-filled and nullable for the others; the fields
\* come grouped by bucket (always-, mostly-, sometimes-, rarely-filled, in
\* that order) and within a bucket in the order of relevant_headers.
C6_SchemaGroupedByBucket ==
    SchemaPrinted =>
        /\ OneFieldPerColumn
        /\ \A i, j \in 1..Len(relevant_headers) :
               LET ri == FillRank(stats[relevant_headers[i]])
                   rj == FillRank(stats[relevant_headers[j]])
               IN  (ri < rj \/ (ri = rj /\ i < j)) =>
                       \A m \in FieldsOf(relevant_headers[i]) :
                           \A n \in FieldsOf(relevant_headers[j]) : m < n

\* A schema of three fields whose first relevant column is rarely filled,
\* the second always and the third mostly: the schema reverses the first
\* against both others.
C6_Witness ==
    /\ SchemaPrinted
    /\ Len(relevant_headers) = 3
    /\ FillRank(stats[relevant_headers[1]]) = 4
    /\ FillRank(stats[relevant_headers[2]]) = 1
    /\ FillRank(stats[relevant_headers[3]]) = 2
    /\ schema[3].col = relevant_headers[1]

\* The number of places of col in the bucket.
Occurrences(bucket, col) ==
    Cardinality({i \in 1..Len(bucket) : bucket[i] = col})

\* C7: the buckets partition the relevant columns: each column is in
\* exactly one bucket, always-filled iff filled = total and total > 0,
\* mostly-filled iff 90% <= rate < 100%, sometimes-filled iff
\* 50% <= rate < 90%, rarely-filled iff rate < 50% or total = 0.
C7_BucketsPartitionColumns ==
    ReportStarted =>
        /\ Range(always_filled \o mostly_filled \o sometimes_filled
                     \o rarely_filled) = Columns
        /\ \A col \in Columns :
               LET s == stats[col]
               IN  /\ Occurrences(always_filled, col)
                          + Occurrences(mostly_filled, col)
                          + Occurrences(sometimes_filled, col)
                          + Occurrences(rarely_filled, col) = 1
                   /\ col \in Range(always_filled)
                          <=> (s.filled = s.total /\ s.total > 0)
                   /\ col \in Range(mostly_filled)
                          <=> /\ s.total > 0
                              /\ 100 * s.filled >= 90 * s.total
                              /\ 100 * s.filled < 100 * s.total
                   /\ col \in Range(sometimes_filled)
                          <=> /\ s.total > 0
                              /\ 100 * s.filled >= 50 * s.total
                              /\ 100 * s.filled < 90 * s.total
                   /\ col \in Range(rarely_filled)
                          <=> \/ s.total = 0
                              \/ 100 * s.filled < 50 * s.total

\* A report with a column at exactly 90%, one at 100% and one below 50%.
C7_Witness ==
    /\ ReportStarted
    /\ always_filled # <<>>
    /\ rarely_filled # <<>>
    /\ \E i \in 1..Len(mostly_filled) :
           10 * stats[mostly_filled[i]].filled
               = 9 * stats[mostly_filled[i]].total

----------------------------------------------------------------------------
(* Properties of infer_type.                                               *)

Blank(val) == \A i \in 1..Len(val) : val[i] \in Whitespace

\* The rules of infer_type in their order, as <<tag, whether val matches>>.
Rules(val) ==
    << <<"empty", Blank(val)>>,
       <<"url", StartsWith(Strip(val), Http) \/ StartsWith(Strip(val), Https)>>,
       <<"date", IsDate(Strip(val))>>,
       <<"integer", ParsesInt(Strip(val))>>,
       <<"float", ParsesFloat(Strip(val))>>,
       <<"string", TRUE>> >>

\* The tag of the first rule that val matches.
FirstMatch(val) ==
    LET rules == Rules(val)
        k == CHOOSE n \in 1..Len(rules) :
                 rules[n][2] /\ \A m \in 1..(n - 1) : ~rules[m][2]
    IN  rules[k][1]

\* Three '/'-separated segments, each of digits only.
ThreeDigitSegments(val) ==
    \E i, j \in 1..Len(val) :
        /\ 1 < i /\ i + 1 < j /\ j < Len(val)
        /\ val[i] = "/" /\ val[j] = "/"
        /\ \A k \in (1..Len(val)) \ {i, j} : val[k] \in Digits

----------------------------------------------------------------------------
(* Properties of the storage wrapper.                                      *)

\* A value is there: not None and not the empty string.
Present(opt) == opt # <<>> /\ opt # <<"">>

\* The four values the last call needed, after the fallback from argument
\* to environment: bucket name, file name, SUPABASE_URL, SUPABASE_KEY.
ConfigFound ==
    /\ Present(fetch_call.bucket_name)
           \/ Present(environ["SUPABASE_BUCKET_NAME"])
    /\ Present(fetch_call.file_path) \/ Present(environ["KICKSTART_CSV_NAME"])
    /\ Present(environ["SUPABASE_URL"])
    /\ Present(environ["SUPABASE_KEY"])

EventsOf(op) == {i \in 1..Len(fetch_events) : fetch_events[i].op = op}

\* C12: a call of a fetch function with the bucket name, the file name,
\* SUPABASE_URL or SUPABASE_KEY absent after the fallback from argument to
\* environment fails with a ValueError, creates no client and attempts no
\* download; a client is created and a download attempted only with all
\* four found, the download after the client, and with the values found.
C12_MissingConfigurationFails ==
    fetch_call.fn # "" =>
        /\ ~ConfigFound =>
               /\ fetch_result \in {"ValueError: bucket", "ValueError: file",
                                    "ValueError: credentials"}
               /\ fetch_events = <<>>
        /\ fetch_events # <<>> => ConfigFound
        /\ \A i \in EventsOf("create_client") :
               /\ fetch_events[i].a = environ["SUPABASE_URL"]
               /\ fetch_events[i].b = environ["SUPABASE_KEY"]
        /\ \A i \in EventsOf("download") :
               /\ \E j \in EventsOf("create_client") : j < i
               /\ Present(fetch_events[i].a)
               /\ Present(fetch_events[i].b)
               /\ fetch_events[i].a
                      \in {fetch_call.bucket_name,
                           environ["SUPABASE_BUCKET_NAME"]}
               /\ fetch_events[i].b
                      \in {fetch_call.file_path,
                           environ["KICKSTART_CSV_NAME"]}

\* A call with bucket, file and URL found and SUPABASE_KEY unset has
\* raised, with no call to the library.
C12_Witness ==
    /\ fetch_call.fn = "fetch_csv_as_toon"
    /\ fetch_call.bucket_name = <<"arg">>
    /\ environ["KICKSTART_CSV_NAME"] = <<"env">>
    /\ environ["SUPABASE_URL"] = <<"env">>
    /\ environ["SUPABASE_KEY"] = <<>>
    /\ fetch_result = "ValueError: credentials"
    /\ fetch_events = <<>>

====
